---- MODULE Spec2Model ----
(***************************************************************************)
(* A model of the scripts of aws-s3-toolkit:                               *)
(*   src/src/hash_utils.py                       integrity hash files     *)
(*   src/src/s3_utils.py                         bucket probe, listing    *)
(*   src/src/upload_dir_contents_to_S3_bucket.py S3FileUploader, main     *)
(*   src/src/download_S3_bucket.py               S3FileDownloader, main   *)
(*   src/src/create_s3_bucket.py                 create_bucket, main      *)
(*   src/src/delete_bucket.py                    the delete script        *)
(*                                                                         *)
(* Text is a sequence of symbols.  The alphabet holds two ordinary         *)
(* characters "a" and "b" (both are also lowercase hex digits), the        *)
(* separator ":", the newline "nl" and the literal suffix ".hash" taken    *)
(* as one symbol.  A file name and a file's content are such sequences.    *)
(* A directory is a sequence of path components; a file path is a record   *)
(* [dir, name].  Paths of the model are canonical (no symbolic links, no   *)
(* dot segments).                                                          *)
(***************************************************************************)
EXTENDS Integers, Sequences, FiniteSets, TLC

VARIABLES
    fs,             \* local files: file path -> content
    dirs,           \* local directories that exist
    bucket,         \* the S3 bucket: object key -> content
    region,         \* the bucket's LocationConstraint as the provider reports it
    args,           \* command lines: [is_file, path] of the upload script,
                    \*                [dir] of the download script
    up,             \* S3FileUploader object, locals and position of its main
    dn,             \* S3FileDownloader object, locals and position of its main
    log,            \* history: the calls made so far, in order
    enumerated,     \* history: the files os.walk has listed so far
    snap,           \* history: [fs, dirs] when the download script started
    hx,             \* hash_utils exercise: [pc, subject, created, target, verdict]
    cr,             \* create_s3_bucket.py: arguments, session region, locals, position
    dl              \* delete_bucket.py: arguments, locals, position

vars == <<fs, dirs, bucket, region, args, up, dn, log, enumerated, snap, hx, cr, dl>>

----------------------------------------------------------------------------
(* Bounds of the model *)

MaxNameLen == 2     \* longest file name drawn for the hash_utils exercise
MaxLineLen == 3     \* longest hand-made hash-file content drawn

----------------------------------------------------------------------------
(* Text *)

HASHFILE_PART_SEP == ":"
NL == "nl"
HASH_EXT == ".hash"

Alphabet == {"a", "b", HASHFILE_PART_SEP, HASH_EXT, NL}

SeqsUpTo(S, n) == UNION {[1..k -> S] : k \in 0..n}

\* index of the first occurrence of symbol c in s, 0 when there is none
IndexOf(s, c) ==
    IF \E i \in 1..Len(s) : s[i] = c
    THEN CHOOSE i \in 1..Len(s) : s[i] = c /\ \A j \in 1..(i-1) : s[j] # c
    ELSE 0

\* str.split(sep): the fields between the separators, count(sep)+1 of them
RECURSIVE Split(_, _)
Split(s, sep) ==
    LET i == IndexOf(s, sep) IN
    IF i = 0 THEN <<s>>
    ELSE <<SubSeq(s, 1, i-1)>> \o Split(SubSeq(s, i+1, Len(s)), sep)

\* f.readline(): the text up to and including the first newline
ReadLine(content) ==
    LET i == IndexOf(content, NL) IN
    IF i = 0 THEN content ELSE SubSeq(content, 1, i)

\* The digest is modelled as a collision-free function of the content that
\* yields lowercase hex digits only: a fixed digit followed by a three-digit
\* code per symbol.
HexCode(c) ==
    CASE c = "a"               -> <<"a", "a", "a">>
      [] c = "b"               -> <<"a", "a", "b">>
      [] c = HASHFILE_PART_SEP -> <<"a", "b", "a">>
      [] c = HASH_EXT          -> <<"a", "b", "b">>
      [] c = NL                -> <<"b", "a", "a">>

RECURSIVE HexDigest(_)
HexDigest(content) ==
    IF content = <<>> THEN <<"b">>
    ELSE HexCode(Head(content)) \o HexDigest(Tail(content))

----------------------------------------------------------------------------
(* Local filesystem *)

NoPath == [dir |-> <<>>, name |-> <<>>]         \* the empty string ""
Path(d, n) == [dir |-> d, name |-> n]
Join(d, n) == Path(d, n)                        \* os.path.join(dir, name)
Basename(p) == p.name
Dirname(p) == p.dir
RealPath(p) == p                                \* canonical paths only
WithExt(p) == Path(p.dir, p.name \o <<HASH_EXT>>)   \* path + ".hash"

IsFile(f, p) == p \in DOMAIN f
WriteFile(f, p, c) == [q \in (DOMAIN f) \cup {p} |-> IF q = p THEN c ELSE f[q]]
RemoveFile(f, p) == [q \in (DOMAIN f) \ {p} |-> f[q]]

\* a bug: the extension is returned without its dot
SplitExt_nodot(n) ==
    IF Len(n) >= 2 /\ n[Len(n)] = HASH_EXT THEN "hash" ELSE ""

\* os.path.splitext(name)[1]: HASH_EXT when the name ends with it and has
\* something before it (a name that is only ".hash" has no extension)
SplitExt(n) ==
    IF Len(n) >= 2 /\ n[Len(n)] = HASH_EXT THEN HASH_EXT ELSE ""

----------------------------------------------------------------------------
(* hash_utils.py *)

Raise == "raise"
NoDigest == <<"raise">>     \* get_hash raised: no digest

\* get_hash: the digest, or an exception when the file cannot be opened
get_hash(f, p) == IF IsFile(f, p) THEN HexDigest(f[p]) ELSE NoDigest

\* How the write of the hash file can end: it is written; open() fails and
\* nothing changes; or the file is created and the write fails, leaving it
\* empty.  In both failures the bare 'except' returns "".
WriteOutcomes == {"ok", "open_failed", "write_failed"}

\* create_integrity_hash_file: the new filesystem, the returned path, and
\* whether it raised instead (get_hash is outside the try block)
create_integrity_hash_file(f, filepath, w) ==
    LET real_path == RealPath(filepath)
        filename == Basename(real_path)
        file_hash == get_hash(f, real_path)
        hash_filepath == WithExt(real_path)
    IN  IF file_hash = NoDigest THEN [fs |-> f, ret |-> NoPath, raised |-> TRUE]
        ELSE CASE w = "ok" ->
                    [fs |-> WriteFile(f, hash_filepath,
                                filename \o <<HASHFILE_PART_SEP>> \o file_hash),
                     ret |-> hash_filepath, raised |-> FALSE]
               [] w = "open_failed" ->
                    [fs |-> f, ret |-> NoPath, raised |-> FALSE]
               [] w = "write_failed" ->
                    [fs |-> WriteFile(f, hash_filepath, <<>>),
                     ret |-> NoPath, raised |-> FALSE]

\* verify_hash
verify_hash(f, filepath, expected_hash) ==
    LET computed_hash == get_hash(f, filepath) IN
    IF computed_hash = NoDigest THEN Raise
    ELSE IF computed_hash = expected_hash THEN "True" ELSE "False"

\* a bug: the check is len(parts) < 2, so extra fields are ignored
verify_integrity_hash_file_lenient(f, hash_filepath) ==
    IF ~IsFile(f, hash_filepath) THEN Raise
    ELSE LET line == ReadLine(f[hash_filepath])
             parts == Split(line, HASHFILE_PART_SEP)
         IN  IF Len(parts) < 2 THEN "False"
             ELSE verify_hash(f, Join(Dirname(hash_filepath), parts[1]), parts[2])

\* verify_integrity_hash_file: "True", "False" or an exception
verify_integrity_hash_file(f, hash_filepath) ==
    IF ~IsFile(f, hash_filepath) THEN Raise
    ELSE LET line == ReadLine(f[hash_filepath])
             parts == Split(line, HASHFILE_PART_SEP)
         IN  IF Len(parts) # 2 THEN "False"
             ELSE verify_hash(f, Join(Dirname(hash_filepath), parts[1]), parts[2])

----------------------------------------------------------------------------
(* The bucket and the calls on it *)

BucketName == <<"bkt">>             \* the bucket's name, as a path component

\* How a call to S3 can end.  head_bucket: success, a ClientError (no such
\* bucket, forbidden) or another botocore error (no connection, no
\* credentials).  Any other call: success or an exception.
HeadOutcomes == {"ok", "ClientError", "OtherError"}
CallOutcomes == {"ok", "fail"}

PutObject(b, key, c) == [k \in (DOMAIN b) \cup {key} |-> IF k = key THEN c ELSE b[k]]

Event(op, who, key, ok) == [op |-> op, who |-> who, key |-> key, ok |-> ok]

\* s3_utils.check_bucket: only ClientError is caught
check_bucket(head) ==
    CASE head = "ok"          -> "True"
      [] head = "ClientError" -> "False"
      [] OTHER                -> Raise

Perms(S) ==
    {s \in [1..Cardinality(S) -> S] : \A i, j \in 1..Cardinality(S) : i # j => s[i] # s[j]}

----------------------------------------------------------------------------
(* upload_dir_contents_to_S3_bucket.py *)

UpOff == [pc |-> "off", s3_resource |-> "None", pending |-> <<>>, work |-> <<>>,
          hash_filepath |-> NoPath, files_uploaded |-> 0, result |-> -1]
UpStart == [UpOff EXCEPT !.pc = "start"]

\* S3FileUploader.initialize: the object's s3_resource afterwards and how the
\* call ended ("ok", "NonExistentS3BucketError" or another exception)
Uploader_initialize(head) ==
    LET found == check_bucket(head) IN
    CASE found = "True"  -> [s3_resource |-> "s3", end |-> "ok"]
      [] found = "False" -> [s3_resource |-> "None", end |-> "NonExistentS3BucketError"]
      [] OTHER           -> [s3_resource |-> "None", end |-> Raise]

\* main: S3FileUploader(name), initialize(); exit 2 on NonExistentS3BucketError
UpInitialize ==
    /\ up.pc = "start"
    /\ \E head \in HeadOutcomes :
         LET r == Uploader_initialize(head) IN
         /\ up' = [up EXCEPT !.s3_resource = r.s3_resource,
                             !.pc = CASE r.end = "ok" -> "ready"
                                      [] r.end = "NonExistentS3BucketError" -> "exit2"
                                      [] OTHER -> "crashed"]
         /\ log' = Append(log, Event("probe", "up", <<check_bucket(head)>>,
                                     check_bucket(head) = "True"))
    /\ UNCHANGED <<fs, dirs, bucket, region, args, dn, enumerated, snap, hx, cr, dl>>

\* main, is_file: upload_file(path) hands the one file to the per-item steps
UpUploadFile ==
    /\ up.pc = "ready"
    /\ args.is_file
    /\ up' = [up EXCEPT !.pc = "transfer", !.work = <<args.path>>]
    /\ UNCHANGED <<fs, dirs, bucket, region, args, dn, log, enumerated, snap, hx, cr, dl>>

\* main, directory: upload_dir_contents(path) starts, files_uploaded = 0
UpUploadDir ==
    /\ up.pc = "ready"
    /\ ~args.is_file
    /\ up' = [up EXCEPT !.pc = "walk", !.files_uploaded = 0,
                        !.pending = <<args.path.dir>>, !.work = <<>>]
    /\ UNCHANGED <<fs, dirs, bucket, region, args, dn, log, enumerated, snap, hx, cr, dl>>

FilesIn(f, d) == {p \in DOMAIN f : p.dir = d}
SubdirsOf(ds, d) == {e \in ds : Len(e) = Len(d) + 1 /\ SubSeq(e, 1, Len(d)) = d}

\* os.walk, top-down: the next directory is listed (in the order the
\* filesystem gives), its files become the inner loop's work, its
\* subdirectories are walked before the directories still pending
UpWalk ==
    /\ up.pc = "walk"
    /\ up.pending # <<>>
    /\ LET d == Head(up.pending) IN
       \E files \in Perms(FilesIn(fs, d)), subs \in Perms(SubdirsOf(dirs, d)) :
         /\ up' = [up EXCEPT !.work = files,
                             !.pending = subs \o Tail(up.pending),
                             !.pc = IF files = <<>> THEN "walk" ELSE "transfer"]
         /\ enumerated' = enumerated \o files
    /\ UNCHANGED <<fs, dirs, bucket, region, args, dn, log, snap, hx, cr, dl>>

\* _upload_file_to_s3_bucket, line 76: the data file is stored under its basename
UpTransfer ==
    /\ up.pc = "transfer"
    /\ LET real_path == RealPath(Head(up.work))
           filename == Basename(real_path)
       IN  \E r \in CallOutcomes :
             LET ok == r = "ok" /\ IsFile(fs, real_path) IN
             /\ bucket' = IF ok THEN PutObject(bucket, filename, fs[real_path]) ELSE bucket
             /\ up' = [up EXCEPT !.pc = IF ok THEN "hash_create" ELSE "crashed"]
             /\ log' = Append(log, Event("store", "up", filename, ok))
    /\ UNCHANGED <<fs, dirs, region, args, dn, enumerated, snap, hx, cr, dl>>

\* _upload_file_to_s3_bucket, line 84: create_integrity_hash_file(file_path)
UpHashCreate ==
    /\ up.pc = "hash_create"
    /\ \E w \in WriteOutcomes :
         LET r == create_integrity_hash_file(fs, Head(up.work), w) IN
         /\ fs' = r.fs
         /\ up' = [up EXCEPT !.hash_filepath = r.ret,
                             !.pc = IF r.raised THEN "crashed" ELSE "hash_upload"]
         /\ log' = Append(log, Event("hash_create", "up", Basename(Head(up.work)),
                                     r.ret # NoPath))
    /\ UNCHANGED <<dirs, bucket, region, args, dn, enumerated, snap, hx, cr, dl>>

\* _upload_file_to_s3_bucket, line 86: real_path + ".hash" is stored under
\* filename + ".hash", whatever create_integrity_hash_file returned
UpHashUpload ==
    /\ up.pc = "hash_upload"
    /\ LET real_path == RealPath(Head(up.work))
           filename == Basename(real_path)
       IN  \E r \in CallOutcomes :
             LET ok == r = "ok" /\ IsFile(fs, WithExt(real_path)) IN
             /\ bucket' = IF ok THEN PutObject(bucket, filename \o <<HASH_EXT>>,
                                               fs[WithExt(real_path)])
                          ELSE bucket
             /\ up' = [up EXCEPT !.pc = IF ok THEN "hash_cleanup" ELSE "crashed"]
             /\ log' = Append(log, Event("store_hash", "up", filename \o <<HASH_EXT>>, ok))
    /\ UNCHANGED <<fs, dirs, region, args, dn, enumerated, snap, hx, cr, dl>>

\* a bug: '=' for '+='
CountItem_assign(n) == 1

\* upload_dir_contents, line 114: files_uploaded += 1
CountItem(n) == n + 1

\* _upload_file_to_s3_bucket, lines 88-93: os.remove(hash_filepath), a failure
\* is printed and ignored; then the caller: upload_file is done, or
\* upload_dir_contents counts the item and goes on
UpHashCleanup ==
    /\ up.pc = "hash_cleanup"
    /\ LET removed == IsFile(fs, up.hash_filepath)
           rest == Tail(up.work)
       IN  /\ fs' = IF removed THEN RemoveFile(fs, up.hash_filepath) ELSE fs
           /\ log' = Append(log, Event("hash_remove", "up", Basename(Head(up.work)), removed))
           /\ up' = IF args.is_file
                    THEN [up EXCEPT !.pc = "done", !.work = rest]
                    ELSE [up EXCEPT !.files_uploaded = CountItem(up.files_uploaded),
                                    !.work = rest,
                                    !.pc = IF rest = <<>> THEN "walk" ELSE "transfer"]
    /\ UNCHANGED <<dirs, bucket, region, args, dn, enumerated, snap, hx, cr, dl>>

\* upload_dir_contents, line 117: the walk is over, the count is returned
UpReturn ==
    /\ up.pc = "walk"
    /\ up.pending = <<>>
    /\ up' = [up EXCEPT !.pc = "done", !.result = up.files_uploaded]
    /\ UNCHANGED <<fs, dirs, bucket, region, args, dn, log, enumerated, snap, hx, cr, dl>>

UNext ==
    \/ UpInitialize
    \/ UpUploadFile
    \/ UpUploadDir
    \/ UpWalk
    \/ UpTransfer
    \/ UpHashCreate
    \/ UpHashUpload
    \/ UpHashCleanup
    \/ UpReturn

----------------------------------------------------------------------------
(* s3_utils.py: location and listing *)

PRIMARY_REGION == "us-east-1"

\* a bug: the LocationConstraint of the response is returned as it is
get_bucket_location_raw(constraint) == constraint

\* get_bucket_location: a null LocationConstraint means us-east-1
get_bucket_location(constraint) ==
    IF constraint = "None" THEN PRIMARY_REGION ELSE constraint

\* S3 lists keys in UTF-8 binary order: newline < '.' < ':' < 'a' < 'b'
Rank(c) ==
    CASE c = NL                -> 1
      [] c = HASH_EXT          -> 2
      [] c = HASHFILE_PART_SEP -> 3
      [] c = "a"               -> 4
      [] c = "b"               -> 5

RECURSIVE LexLess(_, _)
LexLess(s, t) ==
    IF s = <<>> THEN t # <<>>
    ELSE IF t = <<>> THEN FALSE
    ELSE IF Head(s) = Head(t) THEN LexLess(Tail(s), Tail(t))
    ELSE Rank(Head(s)) < Rank(Head(t))

RECURSIVE SortKeys(_)
SortKeys(S) ==
    IF S = {} THEN <<>>
    ELSE LET m == CHOOSE k \in S : \A j \in S \ {k} : LexLess(k, j)
         IN  <<m>> \o SortKeys(S \ {m})

\* get_bucket_contents: the key of every object, in listing order
get_bucket_contents(b, location) == SortKeys(DOMAIN b)

----------------------------------------------------------------------------
(* download_S3_bucket.py *)

DnOff == [pc |-> "off", s3_resource |-> "None", dir_path |-> <<>>, location |-> "",
          bucket_files |-> <<>>, next |-> 1, files_downloaded |-> 0,
          hash_files |-> <<>>, vnext |-> 1, verified_count |-> 0, failed_count |-> 0,
          count |-> -1, verified |-> "none", err |-> ""]
DnStart == [DnOff EXCEPT !.pc = "start"]

\* a bug: the handle is kept whatever the probe said
Downloader_initialize_unchecked(head) == [s3_resource |-> "s3", end |-> "ok"]

\* S3FileDownloader.initialize
Downloader_initialize(head) ==
    LET found == check_bucket(head) IN
    CASE found = "True"  -> [s3_resource |-> "s3", end |-> "ok"]
      [] found = "False" -> [s3_resource |-> "None", end |-> "NonExistentS3BucketError"]
      [] OTHER           -> [s3_resource |-> "None", end |-> Raise]

\* main: S3FileDownloader(name), initialize(); exit 2 on NonExistentS3BucketError.
\* The script runs on its own or after an upload run that completed.
DnInitialize ==
    /\ dn.pc = "start"
    /\ up.pc \in {"off", "done"}
    /\ \E head \in HeadOutcomes :
         LET r == Downloader_initialize(head) IN
         /\ dn' = [dn EXCEPT !.s3_resource = r.s3_resource,
                             !.hash_files = <<>>,
                             !.pc = CASE r.end = "ok" -> "ready"
                                      [] r.end = "NonExistentS3BucketError" -> "exit2"
                                      [] OTHER -> "crashed"]
         /\ log' = Append(log, Event("probe", "dn", <<check_bucket(head)>>,
                                     check_bucket(head) = "True"))
    /\ snap' = [fs |-> fs, dirs |-> dirs]
    /\ UNCHANGED <<fs, dirs, bucket, region, args, up, enumerated, hx, cr, dl>>

\* download_all_files: ./<bucket>; download_all_files_into_dir: <dir>/<bucket>
TargetDir(dir) == IF dir = <<>> THEN BucketName ELSE dir \o BucketName

\* main, lines 125-129, and _download_all_files, lines 54-66: the directory
\* is chosen, the location is resolved and the keys are listed with it
DnResolve ==
    /\ dn.pc = "ready"
    /\ \E loc_r \in CallOutcomes, list_r \in CallOutcomes :
         LET location == get_bucket_location(region) IN
         /\ dn' = [dn EXCEPT !.dir_path = TargetDir(args.dir),
                             !.files_downloaded = 0,
                             !.location = IF loc_r = "ok" THEN location ELSE "",
                             !.bucket_files =
                                 IF loc_r = "ok" /\ list_r = "ok"
                                 THEN get_bucket_contents(bucket, location) ELSE <<>>,
                             !.next = 1,
                             !.err = IF loc_r = "ok" /\ list_r = "ok" THEN "" ELSE "ClientError",
                             !.pc = IF loc_r = "ok" /\ list_r = "ok" THEN "mkdir" ELSE "crashed"]
         /\ log' = IF loc_r = "ok"
                   THEN Append(log, Event("list", "dn", <<location>>, list_r = "ok"))
                   ELSE log
    /\ UNCHANGED <<fs, dirs, bucket, region, args, up, enumerated, snap, hx, cr, dl>>

Parent(d) == SubSeq(d, 1, Len(d) - 1)
DirExists(ds, d) == d = <<>> \/ d \in ds        \* <<>> is the working directory

\* a bug: an existing directory is accepted (as os.makedirs(exist_ok=True))
mkdir_exist_ok(ds, d) ==
    IF ~DirExists(ds, d) /\ ~DirExists(ds, Parent(d)) THEN "FileNotFoundError" ELSE "ok"

\* os.mkdir(dir_path): "ok", or the error it raises
mkdir(ds, d) ==
    IF DirExists(ds, d) THEN "FileExistsError"
    ELSE IF ~DirExists(ds, Parent(d)) THEN "FileNotFoundError"
    ELSE "ok"

\* _download_all_files, line 68
DnMkdir ==
    /\ dn.pc = "mkdir"
    /\ LET r == mkdir(dirs, dn.dir_path) IN
       /\ dirs' = IF r = "ok" THEN dirs \cup {dn.dir_path} ELSE dirs
       /\ dn' = [dn EXCEPT !.pc = IF r = "ok" THEN "fetch" ELSE "crashed",
                           !.err = IF r = "ok" THEN "" ELSE r]
    /\ UNCHANGED <<fs, bucket, region, args, up, log, enumerated, snap, hx, cr, dl>>

\* _download_all_files, lines 70-77: one key is fetched into dir_path and, if
\* its extension is '.hash', remembered
DnFetch ==
    /\ dn.pc = "fetch"
    /\ dn.next <= Len(dn.bucket_files)
    /\ LET file == dn.bucket_files[dn.next]
           full_file_path == Join(dn.dir_path, file)
       IN  \E r \in CallOutcomes :
             LET ok == r = "ok" /\ file \in DOMAIN bucket IN
             /\ fs' = IF ok THEN WriteFile(fs, full_file_path, bucket[file]) ELSE fs
             /\ dn' = IF ok
                      THEN [dn EXCEPT !.files_downloaded = dn.files_downloaded + 1,
                                      !.next = dn.next + 1,
                                      !.hash_files =
                                          IF SplitExt(Basename(full_file_path)) = HASH_EXT
                                          THEN Append(dn.hash_files, full_file_path)
                                          ELSE dn.hash_files]
                      ELSE [dn EXCEPT !.pc = "crashed", !.err = "TransferError"]
             /\ log' = Append(log, Event("fetch", "dn", file, ok))
    /\ UNCHANGED <<dirs, bucket, region, args, up, enumerated, snap, hx, cr, dl>>

\* _download_all_files, line 79, and main, lines 130-135: the count is
\* returned and printed, verify_hashes starts with both counters at 0
DnReturn ==
    /\ dn.pc = "fetch"
    /\ dn.next > Len(dn.bucket_files)
    /\ dn' = [dn EXCEPT !.count = dn.files_downloaded, !.pc = "verify",
                        !.vnext = 1, !.verified_count = 0, !.failed_count = 0]
    /\ UNCHANGED <<fs, dirs, bucket, region, args, up, log, enumerated, snap, hx, cr, dl>>

\* a bug: the hash file is removed whether or not it verified
RemoveAlways(f, hash_filename, v) ==
    IF v \in {"True", "False"} THEN RemoveFile(f, hash_filename) ELSE f

\* verify_hashes, lines 101-102: os.remove(hash_filename) when it verified
RemoveVerified(f, hash_filename, v) ==
    IF v = "True" THEN RemoveFile(f, hash_filename) ELSE f

\* verify_hashes, lines 100-105: one collected hash file is verified; it is
\* removed when it verified
DnVerifyItem ==
    /\ dn.pc = "verify"
    /\ dn.vnext <= Len(dn.hash_files)
    /\ LET hash_filename == dn.hash_files[dn.vnext]
           v == verify_integrity_hash_file(fs, hash_filename)
       IN  /\ fs' = RemoveVerified(fs, hash_filename, v)
           /\ dn' = CASE v = "True" ->
                           [dn EXCEPT !.verified_count = dn.verified_count + 1,
                                      !.vnext = dn.vnext + 1]
                      [] v = "False" ->
                           [dn EXCEPT !.failed_count = dn.failed_count + 1,
                                      !.vnext = dn.vnext + 1]
                      [] OTHER -> [dn EXCEPT !.pc = "crashed", !.err = "verify"]
           /\ log' = Append(log, Event("verify", "dn", Basename(hash_filename), v = "True"))
    /\ UNCHANGED <<dirs, bucket, region, args, up, enumerated, snap, hx, cr, dl>>

\* a bug: true as soon as one hash file verified
VerifyResult_any(verified_count, failed_count, n) ==
    IF verified_count > 0 \/ n = 0 THEN "True" ELSE "False"

\* verify_hashes, line 107
VerifyResult(verified_count, failed_count, n) ==
    IF verified_count = n THEN "True" ELSE "False"

\* verify_hashes returns; main reports
DnVerifyReturn ==
    /\ dn.pc = "verify"
    /\ dn.vnext > Len(dn.hash_files)
    /\ dn' = [dn EXCEPT !.pc = "done",
                        !.verified = VerifyResult(dn.verified_count, dn.failed_count,
                                                  Len(dn.hash_files))]
    /\ UNCHANGED <<fs, dirs, bucket, region, args, up, log, enumerated, snap, hx, cr, dl>>

DNext ==
    \/ DnInitialize
    \/ DnResolve
    \/ DnMkdir
    \/ DnFetch
    \/ DnReturn
    \/ DnVerifyItem
    \/ DnVerifyReturn

NoSnap == [fs |-> <<>>, dirs |-> {}]
CrOff == [pc |-> "off", location |-> "None", current_region |-> "None",
          bucket_region |-> "None", status |-> "none"]
DlOff == [pc |-> "off", no_user_prompt |-> FALSE, bucket_location |-> "None",
          is_empty |-> FALSE, deleted |-> FALSE]
HxOff == [pc |-> "off", subject |-> NoPath, created |-> NoPath,
          target |-> NoPath, verdict |-> "none"]

----------------------------------------------------------------------------
(* The upload script run on a source directory *)

MaxFiles == 2       \* most files in the source tree

SrcDir == <<"D">>
SubDir == <<"D", "sub">>
SourceNames == {<<"a">>, <<"b">>, <<"a", HASHFILE_PART_SEP>>, <<"a", HASH_EXT>>}
SourceContents == {<<"a">>, <<"b">>}
SubNames == {<<"a">>}
SubContents == {<<"b", "a">>}

\* the trees the source directory can hold: files at the top and in sub/
SourceTrees ==
    {t \in [top : SUBSET SourceNames, sub : SUBSET SubNames] :
        Cardinality(t.top) + Cardinality(t.sub) <= MaxFiles}

TreeFiles(t, ct, cs) ==
    [p \in {Path(SrcDir, n) : n \in t.top} \cup {Path(SubDir, n) : n \in t.sub} |->
        IF p.dir = SrcDir THEN ct[p.name] ELSE cs[p.name]]

OutDir == <<"out">>
Regions == {"None", "eu-west-1"}
ArgDirs == {<<>>, OutDir}

\* a file already in the destination directory, when that directory exists
OldFile(dir) == Path(TargetDir(dir), <<"a">>)
OldContent == <<"b", "b">>

\* The upload script is run on a source tree and an empty bucket; when it has
\* completed, the download script is run on the same bucket.
Init ==
    /\ \E t \in SourceTrees, dir \in ArgDirs, exists \in BOOLEAN :
         /\ \E ct \in [t.top -> SourceContents], cs \in [t.sub -> SubContents] :
              fs = IF exists
                   THEN WriteFile(TreeFiles(t, ct, cs), OldFile(dir), OldContent)
                   ELSE TreeFiles(t, ct, cs)
         /\ dirs = {SrcDir, OutDir} \cup (IF t.sub = {} THEN {} ELSE {SubDir})
                      \cup (IF exists THEN {TargetDir(dir)} ELSE {})
         /\ \E target \in {Path(SrcDir, <<>>)} \cup {Path(SrcDir, n) : n \in t.top} :
              args = [is_file |-> target.name # <<>>, path |-> target, dir |-> dir]
    /\ bucket = <<>>
    /\ region \in Regions
    /\ up = UpStart
    /\ dn = DnStart
    /\ log = <<>>
    /\ enumerated = <<>>
    /\ snap = NoSnap
    /\ hx = HxOff
    /\ cr = CrOff
    /\ dl = DlOff

Next == UNext \/ DNext

Spec == Init /\ [][Next]_vars

----------------------------------------------------------------------------
(* The download script run on a bucket of any content *)

MaxKeys == 3        \* most objects in the bucket

HashLine(n, c) == n \o <<HASHFILE_PART_SEP>> \o HexDigest(c)

ObjectKeys == {<<"a">>, <<"b">>, <<"a", HASH_EXT>>, <<"b", HASH_EXT>>}
ObjectContents ==
    {<<"a">>, HashLine(<<"a">>, <<"a">>), HashLine(<<"b">>, <<"a">>),
     <<"a", HASHFILE_PART_SEP, "a", HASHFILE_PART_SEP>>}

Buckets ==
    UNION {[K -> ObjectContents] : K \in {S \in SUBSET ObjectKeys : Cardinality(S) <= MaxKeys}}

DInit ==
    /\ bucket \in Buckets
    /\ region \in Regions
    /\ \E dir \in ArgDirs, exists \in BOOLEAN, out \in BOOLEAN :
         /\ exists /\ dir # <<>> => out
         /\ fs = LET beside == IF out THEN WriteFile(<<>>, Path(OutDir, <<"a">>), <<"b">>)
                                 ELSE <<>>
                 IN  IF exists THEN WriteFile(beside, OldFile(dir), OldContent) ELSE beside
         /\ dirs = (IF out THEN {OutDir} ELSE {})
                      \cup (IF exists THEN {TargetDir(dir)} ELSE {})
         /\ args = [is_file |-> FALSE, path |-> NoPath, dir |-> dir]
    /\ up = UpOff
    /\ dn = DnStart
    /\ log = <<>>
    /\ enumerated = <<>>
    /\ snap = NoSnap
    /\ hx = HxOff
    /\ cr = CrOff
    /\ dl = DlOff

SpecDownload == DInit /\ [][DNext]_vars

----------------------------------------------------------------------------
(* The hash_utils exercise: one data file F with any name and content, and *)
(* one hand-made hash file with any content; create and verify are applied.*)

Names == SeqsUpTo(Alphabet, MaxNameLen) \ {<<>>}
Contents == {<<>>, <<"a">>, <<"b", "a">>}
Lines == SeqsUpTo(Alphabet, MaxLineLen)

WorkDir == <<"D">>
HandMade == Path(WorkDir, <<"b", "b", "b", HASH_EXT>>)

HInit ==
    /\ \E n \in Names, c \in Contents, l \in Lines :
         /\ hx = [pc |-> "start", subject |-> Path(WorkDir, n), created |-> NoPath,
                  target |-> NoPath, verdict |-> "none"]
         /\ fs = WriteFile(WriteFile(<<>>, HandMade, l), Path(WorkDir, n), c)
    /\ dirs = {WorkDir}
    /\ bucket = <<>>
    /\ region = "None"
    /\ args = [is_file |-> FALSE, path |-> NoPath, dir |-> <<>>]
    /\ up = UpOff
    /\ dn = DnOff
    /\ log = <<>>
    /\ enumerated = <<>>
    /\ snap = NoSnap
    /\ cr = CrOff
    /\ dl = DlOff

\* create_integrity_hash_file(F)
HCreate ==
    /\ hx.pc = "start"
    /\ \E w \in WriteOutcomes :
         LET r == create_integrity_hash_file(fs, hx.subject, w) IN
         /\ fs' = r.fs
         /\ hx' = [hx EXCEPT !.pc = IF r.raised THEN "raised" ELSE "created",
                             !.created = r.ret]
    /\ UNCHANGED <<dirs, bucket, region, args, up, dn, log, enumerated, snap, cr, dl>>

\* verify_integrity_hash_file(the path create returned)
HVerifyCreated ==
    /\ hx.pc = "created"
    /\ hx.created # NoPath
    /\ hx' = [hx EXCEPT !.pc = "verified", !.target = hx.created,
                        !.verdict = verify_integrity_hash_file(fs, hx.created)]
    /\ UNCHANGED <<fs, dirs, bucket, region, args, up, dn, log, enumerated, snap, cr, dl>>

\* verify_integrity_hash_file(the hand-made hash file)
HVerifyHandMade ==
    /\ hx.pc = "start"
    /\ hx' = [hx EXCEPT !.pc = "verified", !.target = HandMade,
                        !.verdict = verify_integrity_hash_file(fs, HandMade)]
    /\ UNCHANGED <<fs, dirs, bucket, region, args, up, dn, log, enumerated, snap, cr, dl>>

HNext == HCreate \/ HVerifyCreated \/ HVerifyHandMade

SpecHash == HInit /\ [][HNext]_vars

----------------------------------------------------------------------------
(* create_s3_bucket.py *)

\* commons.AwsRegions: the primary region and two of the others
US_EAST1 == "us-east-1"
AwsRegions == {US_EAST1, "us-east-2", "eu-west-1"}

\* a bug: the session's region is not consulted
bucket_region_from_args(location, current_region) == location

\* main, lines 122-139: the region handed to create_bucket; "None" is the
\* absent --location argument, a session without region, and Python's None
bucket_region(location, current_region) ==
    IF location # "None" THEN location
    ELSE IF current_region # US_EAST1 THEN current_region
    ELSE "None"

\* create_bucket, lines 60-75: the LocationConstraint of the request, "None"
\* when the request carries no CreateBucketConfiguration
CreateBucketConfiguration(r) ==
    IF r # "None" /\ r # US_EAST1 THEN r ELSE "None"

CrStart(location, current_region) ==
    [pc |-> "start", location |-> location, current_region |-> current_region,
     bucket_region |-> "None", status |-> "none"]

\* main, lines 122-139
CrMain ==
    /\ cr.pc = "start"
    /\ cr' = [cr EXCEPT !.bucket_region = bucket_region(cr.location, cr.current_region),
                        !.pc = "create"]
    /\ UNCHANGED <<fs, dirs, bucket, region, args, up, dn, log, enumerated, snap, hx, dl>>

\* create_bucket, lines 57-80: the create request; a ClientError makes
\* create_bucket return False, any other exception leaves the script
CrCreateBucket ==
    /\ cr.pc = "create"
    /\ \E r \in HeadOutcomes :
         /\ cr' = [cr EXCEPT !.pc = CASE r = "ok"          -> "encrypt"
                                      [] r = "ClientError" -> "done"
                                      [] OTHER             -> "crashed",
                             !.status = IF r = "ClientError" THEN "False" ELSE cr.status]
         /\ log' = Append(log, Event("create_bucket", "cr",
                                     <<CreateBucketConfiguration(cr.bucket_region)>>,
                                     r = "ok"))
    /\ UNCHANGED <<fs, dirs, bucket, region, args, up, dn, enumerated, snap, hx, dl>>

\* create_bucket, lines 87-111: put_bucket_encryption, then return True
CrPutEncryption ==
    /\ cr.pc = "encrypt"
    /\ \E r \in HeadOutcomes :
         /\ cr' = [cr EXCEPT !.pc = IF r = "OtherError" THEN "crashed" ELSE "done",
                             !.status = CASE r = "ok"          -> "True"
                                          [] r = "ClientError" -> "False"
                                          [] OTHER             -> cr.status]
         /\ log' = Append(log, Event("put_bucket_encryption", "cr", <<"AES256">>, r = "ok"))
    /\ UNCHANGED <<fs, dirs, bucket, region, args, up, dn, enumerated, snap, hx, dl>>

CNext == CrMain \/ CrCreateBucket \/ CrPutEncryption

\* the create script run with any --location argument in any session
CInit ==
    /\ fs = <<>>
    /\ dirs = {}
    /\ bucket = <<>>
    /\ region = "None"
    /\ args = [is_file |-> FALSE, path |-> NoPath, dir |-> <<>>]
    /\ up = UpOff
    /\ dn = DnOff
    /\ log = <<>>
    /\ enumerated = <<>>
    /\ snap = NoSnap
    /\ hx = HxOff
    /\ dl = DlOff
    /\ \E location \in AwsRegions \cup {"None"}, current_region \in AwsRegions \cup {"None"} :
         cr = CrStart(location, current_region)

SpecCreate == CInit /\ [][CNext]_vars

----------------------------------------------------------------------------
(* delete_bucket.py *)

PROMPT_MSG_EMPTY_BUCKET == "empty the S3 bucket contents? [Y/N]"
PROMPT_MSG_DELETE_BUCKET == "delete the S3 bucket? [Y/N]"

\* what the user may type at a prompt, and str.lower() of it
Answers == {"y", "YES", "n", "No", "q"}
Lower(a) ==
    CASE a = "YES" -> "yes"
      [] a = "No"  -> "no"
      [] OTHER     -> a

\* a bug: any answer that ends the loop counts as a confirmation
user_confirm_any(answer) == answer \in {"y", "yes", "n", "no"}

\* user_confirm, line 100: the verdict on the answer that ended the loop
user_confirm(answer) == answer = "y" \/ answer = "yes"

\* is_bucket_empty: the listing has no key
is_bucket_empty(b, location) == Len(get_bucket_contents(b, location)) = 0

DlStart(yes) == [DlOff EXCEPT !.pc = "start", !.no_user_prompt = yes]

\* the statement after the empty-out step, lines 159-161 and 166
AfterEmpty == IF dl.no_user_prompt THEN "delete" ELSE "ask_delete"

\* lines 141-157 and 164: the location and the emptiness of the bucket are
\* fetched; a ClientError of either call ends the script with status 1,
\* any other exception ends it with a traceback
DlLocate ==
    /\ dl.pc = "start"
    /\ \E loc_r \in HeadOutcomes, list_r \in HeadOutcomes :
         LET location == get_bucket_location(region)
             is_empty == is_bucket_empty(bucket, location)
             located == loc_r = "ok"
             listed == located /\ list_r = "ok"
             failed == IF located THEN list_r ELSE loc_r
         IN  /\ dl' = [dl EXCEPT
                          !.bucket_location = IF located THEN location ELSE "None",
                          !.is_empty = IF listed THEN is_empty ELSE FALSE,
                          !.pc = CASE listed /\ is_empty      -> AfterEmpty
                                   [] listed /\ ~is_empty /\ dl.no_user_prompt  -> "empty"
                                   [] listed /\ ~is_empty /\ ~dl.no_user_prompt -> "ask_empty"
                                   [] failed = "ClientError"  -> "exit1"
                                   [] OTHER                   -> "crashed"]
             /\ log' = log \o <<Event("get_bucket_location", "dl", <<location>>, located)>>
                           \o (IF located
                               THEN <<Event("is_bucket_empty", "dl", <<location>>, listed)>>
                               ELSE <<>>)
    /\ UNCHANGED <<fs, dirs, bucket, region, args, up, dn, enumerated, snap, hx, cr>>

\* line 164: user_confirm(PROMPT_MSG_EMPTY_BUCKET); the prompt is repeated
\* until the answer is one of y, yes, n, no
DlAskEmpty ==
    /\ dl.pc = "ask_empty"
    /\ \E a \in Answers :
         LET answer == Lower(a) IN
         IF answer \notin {"y", "yes", "n", "no"}
         THEN UNCHANGED vars
         ELSE /\ dl' = [dl EXCEPT !.pc = IF user_confirm(answer) THEN "empty"
                                         ELSE "ask_delete"]
              /\ log' = Append(log, Event("user_confirm", "dl",
                                          <<PROMPT_MSG_EMPTY_BUCKET, answer>>,
                                          user_confirm(answer)))
              /\ UNCHANGED <<fs, dirs, bucket, region, args, up, dn, enumerated, snap, hx, cr>>

\* empty_out_bucket, lines 28-54, called at line 157 or 165: its result is
\* not looked at by the caller; an exception other than ClientError ends the
\* script
DlEmptyOutBucket ==
    /\ dl.pc = "empty"
    /\ \E r \in HeadOutcomes :
         /\ bucket' = IF r = "ok" THEN <<>> ELSE bucket
         /\ dl' = [dl EXCEPT !.pc = IF r = "OtherError" THEN "crashed" ELSE AfterEmpty]
         /\ log' = Append(log, Event("empty_out_bucket", "dl", <<dl.bucket_location>>,
                                     r = "ok"))
    /\ UNCHANGED <<fs, dirs, region, args, up, dn, enumerated, snap, hx, cr>>

\* line 166: user_confirm(PROMPT_MSG_DELETE_BUCKET)
DlAskDelete ==
    /\ dl.pc = "ask_delete"
    /\ \E a \in Answers :
         LET answer == Lower(a) IN
         IF answer \notin {"y", "yes", "n", "no"}
         THEN UNCHANGED vars
         ELSE /\ dl' = [dl EXCEPT !.pc = IF user_confirm(answer) THEN "delete" ELSE "done"]
              /\ log' = Append(log, Event("user_confirm", "dl",
                                          <<PROMPT_MSG_DELETE_BUCKET, answer>>,
                                          user_confirm(answer)))
              /\ UNCHANGED <<fs, dirs, bucket, region, args, up, dn, enumerated, snap, hx, cr>>

\* delete_bucket, lines 68-91, called at line 161 or 167: S3 deletes only an
\* empty bucket, a bucket that still has objects is refused with a
\* ClientError
DlDeleteBucket ==
    /\ dl.pc = "delete"
    /\ \E r \in HeadOutcomes :
         LET ok == r = "ok" /\ bucket = <<>> IN
         /\ dl' = [dl EXCEPT !.pc = IF r = "OtherError" THEN "crashed" ELSE "done",
                             !.deleted = ok]
         /\ log' = Append(log, Event("delete_bucket", "dl", <<dl.bucket_location>>, ok))
    /\ UNCHANGED <<fs, dirs, bucket, region, args, up, dn, enumerated, snap, hx, cr>>

XNext == DlLocate \/ DlAskEmpty \/ DlEmptyOutBucket \/ DlAskDelete \/ DlDeleteBucket

\* the delete script run on a bucket of any content, with or without --yes
XInit ==
    /\ fs = <<>>
    /\ dirs = {}
    /\ bucket \in Buckets
    /\ region \in Regions
    /\ args = [is_file |-> FALSE, path |-> NoPath, dir |-> <<>>]
    /\ up = UpOff
    /\ dn = DnOff
    /\ log = <<>>
    /\ enumerated = <<>>
    /\ snap = NoSnap
    /\ hx = HxOff
    /\ cr = CrOff
    /\ \E yes \in BOOLEAN : dl = DlStart(yes)

SpecDelete == XInit /\ [][XNext]_vars

----------------------------------------------------------------------------
(* Properties *)

TransferOps == {"store", "store_hash", "fetch"}
Events(who, ops) == {i \in 1..Len(log) : log[i].who = who /\ log[i].op \in ops}
Engine(who) == IF who = "up" THEN up ELSE dn

\* C1: for the uploader and for the downloader, every upload_file /
\* download_file call on the bucket comes after an existence probe of that
\* object that returned true; when check_bucket returned false, initialize
\* raised NonExistentS3BucketError (main exits with 2) and the run makes no
\* transfer call; s3_resource is set only after a probe that returned true.
C1_ProbeBeforeTransfer ==
    \A who \in {"up", "dn"} :
        /\ \A i \in Events(who, TransferOps) :
              \E j \in Events(who, {"probe"}) : j < i /\ log[j].ok
        /\ (\E j \in Events(who, {"probe"}) : log[j].key = <<"False">>) =>
              /\ Engine(who).pc = "exit2"
              /\ Events(who, TransferOps) = {}
        /\ Engine(who).s3_resource # "None" =>
              \E j \in Events(who, {"probe"}) : log[j].ok

\* the downloader's probe failed after an upload run that transferred files
C1_Witness ==
    /\ \E j \in Events("dn", {"probe"}) : log[j].key = <<"False">>
    /\ dn.pc = "exit2"
    /\ Events("up", TransferOps) # {}

Attempted(p) == \E i \in Events("up", {"store"}) : log[i].key = Basename(p)

\* C2: in upload_dir_contents a failure on one item does not abort the
\* batch: once the batch has ended, every file the walk listed was attempted
\* and a count was returned.
C2_ItemFailureDoesNotAbort ==
    (~args.is_file /\ up.s3_resource = "s3" /\ up.pc \in {"done", "crashed"}) =>
        /\ up.pc = "done"
        /\ up.result >= 0
        /\ \A i \in 1..Len(enumerated) : Attempted(enumerated[i])

\* C3: when a fetch fails partway through a download batch, verify_hashes
\* is still run over the hash files collected before the failure.
C3_VerifyAfterFetchFailure ==
    (dn.pc = "crashed" /\ dn.err = "TransferError") =>
        \A i \in 1..Len(dn.hash_files) :
            \E j \in Events("dn", {"verify"}) : log[j].key = Basename(dn.hash_files[i])

DestExisted == TargetDir(args.dir) \in snap.dirs

\* C4: when the destination directory (./<bucket> or <dir>/<bucket>) exists
\* before the download, the run ends at os.mkdir with FileExistsError: no
\* object is fetched and the local files are as they were.
C4_ExistingDestinationUntouched ==
    (dn.pc \notin {"off", "start"} /\ DestExisted) =>
        /\ Events("dn", {"fetch"}) = {}
        /\ fs = snap.fs
        /\ dirs = snap.dirs
        /\ dn.files_downloaded = 0
        /\ ((\E j \in Events("dn", {"list"}) : log[j].ok) /\ dn.pc # "mkdir") =>
              (dn.pc = "crashed" /\ dn.err = "FileExistsError")

\* <dir>/<bucket> existed, the bucket was not empty, and the run ended at mkdir
C4_Witness ==
    /\ DestExisted
    /\ args.dir = OutDir
    /\ dn.bucket_files # <<>>
    /\ dn.pc = "crashed"
    /\ dn.err = "FileExistsError"

\* C5: round trip, for a file F of any name (the separator ':' included):
\* verify_integrity_hash_file(create_integrity_hash_file(F)) returns true
\* when neither F nor its hash file is changed in between.
C5_RoundTrip ==
    (hx.pc = "verified" /\ hx.created # NoPath /\ hx.target = hx.created) =>
        hx.verdict = "True"

\* every call of the upload run succeeded (store, hash file written and
\* stored, hash file removed) and every call of the download run so far
StepOps == {"probe", "store", "hash_create", "store_hash", "hash_remove", "list", "fetch"}
AllStepsOk == \A i \in 1..Len(log) : log[i].op \in StepOps => log[i].ok

\* C6: after upload_dir_contents has uploaded directory D into the empty
\* bucket and the bucket has been downloaded into a fresh directory, every
\* file of D is in that directory with the digest of the original, and
\* verify_hashes returned true.
C6_UploadDownloadFidelity ==
    (~args.is_file /\ up.pc = "done" /\ dn.pc = "done" /\ AllStepsOk) =>
        /\ dn.verified = "True"
        /\ \A i \in 1..Len(enumerated) :
              LET p == enumerated[i]
                  q == Join(dn.dir_path, Basename(p))
              IN  IsFile(fs, q) /\ IsFile(fs, p) /\ HexDigest(fs[q]) = HexDigest(fs[p])

VerifyLog == SelectSeq(log, LAMBDA e : e.op = "verify")

\* C7: when verify_hashes returns, verify_integrity_hash_file has been run
\* once on every collected hash file, in order; verified_count counts those
\* that verified, verified_count + failed_count is the number collected, and
\* the result is true exactly when every one verified (true when none was
\* collected).
C7_VerifyHashesAggregate ==
    dn.pc = "done" =>
        LET n == Len(dn.hash_files) IN
        /\ Len(VerifyLog) = n
        /\ \A i \in 1..n : VerifyLog[i].key = Basename(dn.hash_files[i])
        /\ \A i, j \in 1..n : i # j => dn.hash_files[i] # dn.hash_files[j]
        /\ dn.verified_count = Cardinality({i \in 1..n : VerifyLog[i].ok})
        /\ dn.verified_count + dn.failed_count = n
        /\ dn.verified \in {"True", "False"}
        /\ (dn.verified = "True") <=> (\A i \in 1..n : VerifyLog[i].ok)

\* verify_hashes returned after one hash file verified and another did not
C7_Witness ==
    /\ dn.pc = "done"
    /\ dn.verified_count >= 1
    /\ dn.failed_count >= 1
    /\ dn.verified = "False"

CountOf(line, c) == Cardinality({i \in 1..Len(line) : line[i] = c})

\* C8: for a hash file whose first line has no separator or more than one,
\* verify_integrity_hash_file returns false and does not raise; it returns
\* true only when the line is name:digest and the digest is exactly the
\* digest of the file of that name beside the hash file.
C8_MalformedIsFalse ==
    (hx.pc = "verified" /\ hx.target = HandMade) =>
        LET line == ReadLine(fs[HandMade])
            k == CountOf(line, HASHFILE_PART_SEP)
            i == IndexOf(line, HASHFILE_PART_SEP)
            ref == Path(WorkDir, SubSeq(line, 1, i - 1))
        IN  /\ k # 1 => hx.verdict = "False"
            /\ hx.verdict = "True" =>
                  /\ k = 1
                  /\ IsFile(fs, ref)
                  /\ SubSeq(line, i + 1, Len(line)) = HexDigest(fs[ref])

\* a hash file with two separators was given to verify, which returned false
C8_Witness ==
    /\ hx.pc = "verified"
    /\ hx.target = HandMade
    /\ CountOf(ReadLine(fs[HandMade]), HASHFILE_PART_SEP) = 2
    /\ hx.verdict = "False"

Collected(p) == \E k \in 1..Len(dn.hash_files) : dn.hash_files[k] = p
VerifiedOk(key) == \E j \in Events("dn", {"verify"}) : log[j].key = key /\ log[j].ok

\* C9: in the download run a collected hash file is absent from the local
\* filesystem exactly when its verification succeeded; one that failed (or
\* was not reached) is in place as fetched; every other fetched file and
\* every file that was there before the run is in place, unchanged.
C9_DeletionPolicy ==
    dn.pc \in {"fetch", "verify", "done", "crashed"} =>
        /\ \A i \in Events("dn", {"fetch"}) :
              log[i].ok =>
                LET p == Join(dn.dir_path, log[i].key) IN
                IF Collected(p)
                THEN /\ IsFile(fs, p) <=> ~VerifiedOk(log[i].key)
                     /\ IsFile(fs, p) => fs[p] = bucket[log[i].key]
                ELSE IsFile(fs, p) /\ fs[p] = bucket[log[i].key]
        /\ \A p \in DOMAIN snap.fs : IsFile(fs, p) /\ fs[p] = snap.fs[p]

\* the verification loop has removed one hash file and left a failed one
C9_Witness ==
    /\ dn.pc = "verify"
    /\ \E a, b \in 1..Len(dn.hash_files) :
          /\ a < dn.vnext /\ b < dn.vnext
          /\ ~IsFile(fs, dn.hash_files[a])
          /\ IsFile(fs, dn.hash_files[b])

StoredOk == SelectSeq(log, LAMBDA e : e.op = "store" /\ e.ok)

\* C10: the number upload_dir_contents returns is the number of listed
\* files whose data upload completed, also when the hash file of an item
\* could not be written.
C10_CountIsDataTransfers ==
    (~args.is_file /\ up.pc = "done") =>
        /\ up.result = Len(StoredOk)
        /\ Len(StoredOk) = Len(enumerated)
        /\ \A i \in 1..Len(enumerated) : StoredOk[i].key = Basename(enumerated[i])

\* two files were counted although a hash file could not be written
C10_Witness ==
    /\ ~args.is_file
    /\ up.pc = "done"
    /\ up.result = 2
    /\ \E i \in Events("up", {"hash_create"}) : ~log[i].ok

\* C11: within one upload batch no two files listed by upload_dir_contents
\* are stored under the same object key, so no object stored by the batch is
\* overwritten by a later item of the same batch.
C11_BatchKeysUnique ==
    ~args.is_file =>
        \A i, j \in Events("up", {"store"}) :
            (i # j /\ log[i].ok /\ log[j].ok) => log[i].key # log[j].key

\* C12: check_bucket returns false for every error of the head_bucket call
\* and never hands an exception to its caller.
C12_ProbeNeverRaises ==
    \A i \in Events("up", {"probe"}) \cup Events("dn", {"probe"}) :
        log[i].key \in {<<"True">>, <<"False">>}

\* the region in which the bucket is to be created: --location when given,
\* otherwise the session's region
TargetRegion == IF cr.location # "None" THEN cr.location ELSE cr.current_region

\* C13: the create request carries a LocationConstraint exactly when the
\* target region is not us-east-1, and the constraint is then the target
\* region, for every --location argument (absent, us-east-1, other) and
\* every session region (us-east-1, other).
C13_ConstraintRule ==
    cr.current_region # "None" =>
        \A i \in Events("cr", {"create_bucket"}) :
            /\ (log[i].key # <<"None">>) <=> (TargetRegion # US_EAST1)
            /\ log[i].key # <<"None">> => log[i].key = <<TargetRegion>>

\* no --location, the session is in eu-west-1: the request names eu-west-1
C13_Witness ==
    /\ cr.location = "None"
    /\ cr.current_region = "eu-west-1"
    /\ \E i \in Events("cr", {"create_bucket"}) : log[i].key = <<"eu-west-1">>

\* the region a listing call of the downloader was given
ListedWith == {log[i].key[1] : i \in Events("dn", {"list"})}

\* C14: get_bucket_location never returns an absent or empty location: a
\* null LocationConstraint becomes "us-east-1", any other value is returned
\* as it is; the downloader hands that region to the key-listing call.
C14_LocationResolved ==
    LET expected == IF region = "None" THEN "us-east-1" ELSE region IN
    /\ get_bucket_location(region) \notin {"None", ""}
    /\ get_bucket_location(region) = expected
    /\ ListedWith \subseteq {expected}
    /\ dn.pc \in {"mkdir", "fetch", "verify", "done"} =>
          /\ dn.location = expected
          /\ ListedWith = {expected}

\* a bucket whose LocationConstraint is null was listed in us-east-1
C14_Witness ==
    /\ region = "None"
    /\ dn.pc = "fetch"
    /\ dn.location = "us-east-1"
    /\ ListedWith = {"us-east-1"}

\* the fetches of the downloader that completed, in the order they were made
FetchedOk == SelectSeq(log, LAMBDA e : e.op = "fetch" /\ e.who = "dn" /\ e.ok)

\* the local paths among the first n fetched keys whose name ends in ".hash"
RECURSIVE HashPathsOf(_, _)
HashPathsOf(keys, d) ==
    IF keys = <<>> THEN <<>>
    ELSE LET k == Head(keys) IN
         (IF Len(k) > 1 /\ k[Len(k)] = HASH_EXT THEN <<Path(d, k)>> ELSE <<>>)
             \o HashPathsOf(Tail(keys), d)

\* C15: when the download batch returns, the fetches made are the listed
\* keys, each once and in listing order, every one written into the
\* destination directory; the count returned is their number, and
\* hash_files holds exactly the fetched local paths ending in ".hash", in
\* fetch order.  While the batch runs, the fetches made are a prefix of the
\* listing.
C15_FetchAllInOrder ==
    LET listing == SortKeys(DOMAIN bucket)
        keys == [i \in 1..Len(FetchedOk) |-> FetchedOk[i].key]
    IN  /\ Len(keys) <= Len(listing)
        /\ keys = SubSeq(listing, 1, Len(keys))
        /\ \A i \in Events("dn", {"fetch"}) : ~log[i].ok => dn.pc = "crashed"
        /\ dn.count # -1 =>
              /\ keys = listing
              /\ dn.count = Len(keys)
              /\ dn.hash_files = HashPathsOf(keys, dn.dir_path)
              /\ dn.pc = "verify" /\ dn.vnext = 1 =>
                    \A i \in 1..Len(keys) :
                        /\ IsFile(fs, Path(dn.dir_path, keys[i]))
                        /\ fs[Path(dn.dir_path, keys[i])] = bucket[keys[i]]

\* three keys were fetched, two of them hash files
C15_Witness ==
    /\ dn.count = 3
    /\ Len(dn.hash_files) = 2
    /\ dn.pc = "verify"
    /\ dn.vnext = 1

\* the steps of _upload_file_to_s3_bucket, in the order of the claim
ItemSteps == <<"store", "hash_create", "store_hash", "hash_remove">>
ItemLog ==
    SelectSeq(log, LAMBDA e : e.who = "up" /\ e.op \in {ItemSteps[s] : s \in 1..Len(ItemSteps)})

\* the k-th step event of a batch is step ((k-1) mod 4)+1 of listed file
\* ((k-1) div 4)+1, and only the last step event can be one that raised
StepsInOrder ==
    \A k \in 1..Len(ItemLog) :
        LET item == ((k - 1) \div Len(ItemSteps)) + 1
            step == ((k - 1) % Len(ItemSteps)) + 1
            name == Basename(enumerated[item])
        IN  /\ item <= Len(enumerated)
            /\ ItemLog[k].op = ItemSteps[step]
            /\ ItemLog[k].key = IF ItemSteps[step] = "store_hash"
                                THEN name \o <<HASH_EXT>> ELSE name
            /\ (k < Len(ItemLog) /\ ItemSteps[step] \in TransferOps) => ItemLog[k].ok

\* a hash file of a listed file that was not itself one of the listed files
LeftOver ==
    {i \in 1..Len(enumerated) :
        /\ IsFile(fs, WithExt(RealPath(enumerated[i])))
        /\ \A j \in 1..Len(enumerated) : enumerated[j] # WithExt(RealPath(enumerated[i]))}

\* C16: for every item of an upload batch the steps are data transfer,
\* hash-file creation, hash-file upload, local hash-file deletion, in that
\* order and all before the next item's first step; when the batch has
\* completed, no hash file created by it remains on the local filesystem.
C16_StepOrderAndCleanup ==
    ~args.is_file =>
        /\ StepsInOrder
        /\ up.pc = "done" =>
              /\ Len(ItemLog) = Len(ItemSteps) * Len(enumerated)
              /\ LeftOver = {}

\* C17: verify_hashes always completes with a boolean: a verification that
\* raises (the data file named by a well-formed hash file is absent from
\* the download directory) is counted as failed and the remaining hash
\* files are still verified, so the verification pass never ends in an
\* exception.
C17_VerifyAlwaysCompletes ==
    /\ ~(dn.pc = "crashed" /\ dn.err = "verify")
    /\ dn.pc = "done" =>
          /\ dn.verified \in {"True", "False"}
          /\ Len(VerifyLog) = Len(dn.hash_files)

\* the user answered y or yes to this prompt before step i of the history
Confirmed(prompt, i) ==
    \E j \in Events("dl", {"user_confirm"}) :
        j < i /\ log[j].key[1] = prompt /\ log[j].key[2] \in {"y", "yes"}

\* C18: in the delete script no destructive call is made unless
\* get_bucket_location returned; empty_out_bucket is called only when the
\* bucket was seen non-empty and --yes is set or the user confirmed the
\* empty prompt, and always before delete_bucket; delete_bucket is called
\* only when --yes is set or the user confirmed the delete prompt, and it is
\* attempted also when emptying was declined or returned false.
C18_DeleteGuards ==
    LET n == Len(log) + 1 IN
    /\ \A i \in Events("dl", {"empty_out_bucket", "delete_bucket"}) :
          \E j \in Events("dl", {"get_bucket_location"}) :
              j < i /\ log[j].ok /\ log[i].key = log[j].key
    /\ \A i \in Events("dl", {"empty_out_bucket"}) :
          /\ \E j \in Events("dl", {"is_bucket_empty"}) : j < i /\ log[j].ok
          /\ ~dl.is_empty
          /\ dl.no_user_prompt \/ Confirmed(PROMPT_MSG_EMPTY_BUCKET, i)
          /\ \A k \in Events("dl", {"delete_bucket"}) : i < k
    /\ \A i \in Events("dl", {"delete_bucket"}) :
          dl.no_user_prompt \/ Confirmed(PROMPT_MSG_DELETE_BUCKET, i)
    /\ (dl.pc = "done" /\ (dl.no_user_prompt \/ Confirmed(PROMPT_MSG_DELETE_BUCKET, n))) =>
          Events("dl", {"delete_bucket"}) # {}

\* the user declined to empty a bucket that has objects and confirmed the
\* deletion: delete_bucket was attempted and refused
C18_Witness ==
    /\ dl.pc = "done"
    /\ ~dl.no_user_prompt
    /\ \E j \in Events("dl", {"user_confirm"}) :
          log[j].key = <<PROMPT_MSG_EMPTY_BUCKET, "no">>
    /\ Events("dl", {"empty_out_bucket"}) = {}
    /\ \E i \in Events("dl", {"delete_bucket"}) : ~log[i].ok

====
